---- MODULE Spec2Model ----
(***************************************************************************)
(* lint-consul-retry: a run of the linter over a directory.                *)
(*                                                                         *)
(* run() walks the directory; visitFile parses every regular .go file and, *)
(* when the file imports both the retry package and "testing", hands the   *)
(* tree to ast.Walk with a visitor passed BY VALUE.  The model unrolls     *)
(* ast.Walk into an explicit stack of frames, one frame per node whose     *)
(* subtree is being walked, each frame holding the visitor value that      *)
(* Visit returned for that node.  The syntax trees are the input: they are *)
(* produced node by node while they are walked, and the call expressions   *)
(* seen so far are kept in the history variable calls.                     *)
(*                                                                         *)
(* Identifier, selector and type leaves of the tree are not walked in the  *)
(* model: Visit only increments the depth of its own copy of the visitor   *)
(* for them and they have no children.                                     *)
(***************************************************************************)
EXTENDS Integers, Sequences, FiniteSets, TLC

\* ------------------------------------------------------------------ bounds
MaxFiles == 1   \* files filepath.Walk hands to visitFile in one run
MaxFuncs == 1   \* function declarations in the whole run
MaxCalls == 3   \* call expressions in the whole run

\* --------------------------------------------------------------- constants
retryPath   == "github.com/hashicorp/consul/sdk/testutil/retry"
testingPath == "testing"

violationStatus == 1  \* run: return 1, nil
errorStatus == 1      \* main: os.Exit(1)

failers == { "Error", "Errorf", "Fail", "FailNow", "Fatal", "Fatalf" }

\* ------------------------------------------------------- go/ast structures
\* *ast.Object as the parser's resolution leaves it on an identifier.
\* typ is the declared type expression of the *ast.Field the object was
\* declared by: "StarExpr" over pkg.sel, or "SelectorExpr" pkg.sel.
NilObj ==
  [isNil |-> TRUE, kind |-> "Bad", decl |-> "none", typ |-> "none", pkg |-> "", sel |-> ""]

FieldObj(typ, pkg, sel) ==
  [isNil |-> FALSE, kind |-> "Var", decl |-> "Field", typ |-> typ, pkg |-> pkg, sel |-> sel]

AssignObj ==
  [isNil |-> FALSE, kind |-> "Var", decl |-> "AssignStmt", typ |-> "none", pkg |-> "", sel |-> ""]

TestingT == FieldObj("StarExpr", "testing", "T")       \* t *testing.T
TestingTB == FieldObj("SelectorExpr", "testing", "TB") \* t testing.TB
RetryR == FieldObj("StarExpr", "retry", "R")           \* r *retry.R

\* Expressions.  params is the parameter list of a function literal: one entry
\* per *ast.Field, each entry the sequence of names the field declares.
Ident(name) ==
  [kind |-> "Ident", name |-> name, obj |-> NilObj, params |-> <<>>]

FuncLit(params) ==
  [kind |-> "FuncLit", name |-> "", obj |-> NilObj, params |-> params]

\* A call expression in the place of an argument (CallArg) or of the X of a
\* selector (CallX); the call itself is a child node of the tree.
CallArg ==
  [kind |-> "CallExpr", name |-> "arg", obj |-> NilObj, params |-> <<>>]

CallX ==
  [kind |-> "CallExpr", name |-> "X", obj |-> NilObj, params |-> <<>>]

OtherExpr ==
  [kind |-> "CompositeLit", name |-> "", obj |-> NilObj, params |-> <<>>]

\* A call expression: fun is "SelectorExpr" (x.sel) or "Ident" (x alone).
Sel(x, sel, args) == [fun |-> "SelectorExpr", x |-> x, sel |-> sel, args |-> args]
Fn(x, args) == [fun |-> "Ident", x |-> x, sel |-> "", args |-> args]

\* ------------------------------------------------------------ the inputs
LitR == FuncLit(<< <<"r">> >>)          \* func(r *retry.R) {...}
LitT == FuncLit(<< <<"t">> >>)          \* func(t *retry.R) {...}
LitRT == FuncLit(<< <<"rt">> >>)        \* func(rt *retry.R) {...}
LitUnnamed == FuncLit(<< <<>> >>)       \* func(*retry.R) {...}
LitNoParams == FuncLit(<<>>)            \* func() {...}

\* Calls that can stand as a statement of a block.
TFatal == Sel(Ident("t"), "Fatal", <<Ident("err")>>)                 \* t.Fatal(err)
TLog == Sel(Ident("t"), "Log", <<Ident("err")>>)                     \* t.Log(err)
RFatal == Sel(Ident("r"), "Fatal", <<Ident("err")>>)                 \* r.Fatal(err)
AssertT == Sel(Ident("assert"), "NoErr", <<Ident("t"), Ident("err")>>) \* assert.NoErr(t, err)
AssertR == Sel(Ident("assert"), "NoErr", <<Ident("r"), Ident("err")>>) \* assert.NoErr(r, err)
RequireErr == Sel(Ident("require"), "NotNil", <<Ident("err")>>)      \* require.NotNil(err)
RequireNewT == Sel(Ident("require"), "New", <<Ident("t")>>)          \* require.New(t)
RequireNewR == Sel(Ident("require"), "New", <<Ident("r")>>)          \* require.New(r)
NewFailer == Fn(Ident("newFailer"), <<Ident("t")>>)                  \* newFailer(t)
Chained == Sel(CallX, "Join", <<Ident("t")>>)                        \* <call>.Join(t)
RetryRun(lit) == Sel(Ident("retry"), "Run", <<Ident("t"), lit>>)     \* retry.Run(t, lit)
RetryRunWith == Sel(Ident("retry"), "RunWith", <<CallArg, Ident("t"), LitR>>)
RetryRunShort == Sel(Ident("retry"), "Run", <<Ident("t")>>)          \* retry.Run(t)
RetryRunWithShort == Sel(Ident("retry"), "RunWith", <<OtherExpr, Ident("t")>>)
ThreeTimes == Sel(Ident("retry"), "ThreeTimes", <<>>)                \* retry.ThreeTimes()

\* The source tree is written in one of five vocabularies; a vocabulary gives
\* the calls that can stand as an expression statement of a block.
Vocabularies == { "handle", "failer", "assert", "require", "shape" }

ExprShapes(vocab) ==
  IF vocab = "handle" THEN { TFatal, TLog, RFatal, RetryRun(LitR) }
  ELSE IF vocab = "failer" THEN { TFatal, RFatal, RetryRunWith }
  ELSE IF vocab = "assert" THEN { AssertT, AssertR, Chained, RetryRun(LitR) }
  ELSE IF vocab = "require" THEN { RequireErr, RetryRun(LitR) }
  ELSE { TFatal, RetryRun(LitR), RetryRun(LitT), RetryRun(LitRT), RetryRun(LitUnnamed),
         RetryRun(LitNoParams), RetryRunShort, RetryRunWithShort }

\* Right-hand sides of  require := <call>.
AssignShapes(vocab) ==
  IF vocab = "require" THEN { RequireNewT, RequireNewR } ELSE {}

\* Calls that can stand in an argument position or under a selector.
ArgShapes == { NewFailer, ThreeTimes }

\* Signatures of the function declarations of the source tree: the declared
\* type of their parameter t.
Signatures == { TestingT, TestingTB }

\* The name of the k-th function declaration of a file.
FuncName(k) == IF k = 1 THEN "F" ELSE IF k = 2 THEN "G" ELSE "H"

\* What filepath.Walk can hand to visitFile for one path.
FileInfo(err, regular, suffix, parses, imports) ==
  [err |-> err, regular |-> regular, suffix |-> suffix, parses |-> parses,
   imports |-> imports]

FileInfos ==
  { FileInfo(TRUE, TRUE, ".go", TRUE, {}),
    FileInfo(FALSE, FALSE, ".go", TRUE, {}),
    FileInfo(FALSE, TRUE, ".md", TRUE, {}),
    FileInfo(FALSE, TRUE, ".go", FALSE, {}),
    FileInfo(FALSE, TRUE, ".go", TRUE, {testingPath}),
    FileInfo(FALSE, TRUE, ".go", TRUE, {retryPath}),
    FileInfo(FALSE, TRUE, ".go", TRUE, {retryPath, testingPath}) }

\* ---------------------------------------------------- the pure functions
\* isGoFile: a regular file whose name ends in .go
isGoFile(f) ==
  IF ~f.regular THEN FALSE ELSE f.suffix = ".go"

\* importsPackage: some import spec of the file has the given path
importsPackage(f, importPkg) ==
  \E path \in f.imports : path = importPkg

\* objectIsTestingT: the object is declared by a field of type *testing.T
objectIsTestingT(obj) ==
  IF obj.isNil THEN FALSE
  ELSE IF obj.decl # "Field" THEN FALSE
  ELSE IF obj.typ # "StarExpr" THEN FALSE
  ELSE IF obj.sel # "T" THEN FALSE
  ELSE obj.pkg = "testing"

\* usesTestingT without the look at the receiver of a method call
usesTestingT_argsOnly(ce) ==
  \E i \in 1..Len(ce.args) :
    /\ ce.args[i].kind = "Ident"
    /\ ~ce.args[i].obj.isNil
    /\ ce.args[i].obj.kind = "Var"
    /\ objectIsTestingT(ce.args[i].obj)

\* usesTestingT without the loop over the arguments
usesTestingT_receiverOnly(ce) ==
  /\ ce.fun = "SelectorExpr"
  /\ ce.x.kind = "Ident"
  /\ objectIsTestingT(ce.x.obj)

\* usesTestingT: the receiver of the call is a *testing.T, or one of its
\* arguments is an identifier of a variable that is a *testing.T
usesTestingT(ce) ==
  \/ /\ ce.fun = "SelectorExpr"
     /\ ce.x.kind = "Ident"
     /\ objectIsTestingT(ce.x.obj)
  \/ \E i \in 1..Len(ce.args) :
       /\ ce.args[i].kind = "Ident"
       /\ ~ce.args[i].obj.isNil
       /\ ce.args[i].obj.kind = "Var"
       /\ objectIsTestingT(ce.args[i].obj)

\* The function literal inRetry looks at: Args[1] of Run, Args[2] of RunWith
\* (0-based).  Indexing past the end of Args is a run-time panic.
LitIndex(ce) == IF ce.sel = "Run" THEN 2 ELSE 3

\* inRetry: "true", "false", or "panic" where the code indexes a slice out of
\* range (ce.Args[1], ce.Args[2], Params.List[0], param.Names[0]).
inRetry(ce) ==
  IF ce.fun # "SelectorExpr" THEN "false"
  ELSE IF ce.x.kind # "Ident" THEN "false"
  ELSE IF ce.x.name # "retry" THEN "false"
  ELSE IF ce.sel \notin {"Run", "RunWith"} THEN "false"
  ELSE IF Len(ce.args) < LitIndex(ce) THEN "panic"
  ELSE LET lit == ce.args[LitIndex(ce)] IN
       IF lit.kind # "FuncLit" THEN "false"
       ELSE IF Len(lit.params) < 1 THEN "panic"
       ELSE IF Len(lit.params[1]) < 1 THEN "panic"
       ELSE IF lit.params[1][1] = "r" THEN "true"
       ELSE "false"

\* rememberTest: append pos to broken[path][test], creating the maps
rememberTest(b, path, test, pos) ==
  LET testList == IF path \in DOMAIN b THEN b[path] ELSE [t \in {} |-> <<>>]
      positions == IF test \in DOMAIN testList THEN testList[test] ELSE <<>>
      newList == [t \in DOMAIN testList \cup {test} |->
                    IF t = test THEN Append(positions, pos) ELSE testList[t]]
  IN [p \in DOMAIN b \cup {path} |-> IF p = path THEN newList ELSE b[p]]

\* visitor{path: path}
NewVisitor(path) ==
  [depth |-> 0, currentTest |-> "", path |-> path, retryDepth |-> 0]

\* visitor.Visit for a non-nil node n = [kind, name, ce].  The result is the
\* visitor returned (the receiver's copy), whether rememberTest was called, and
\* whether the call panicked inside inRetry (before anything was remembered).
Visit(v, n) ==
  LET v1 == [v EXCEPT !.depth = @ + 1] IN
  IF n.kind = "CallExpr" THEN
    LET retrying == v1.retryDepth > 0
        ir == inRetry(n.ce)
        v2 == IF ir = "true" THEN [v1 EXCEPT !.retryDepth = v1.depth] ELSE v1
    IN [v |-> v2, retrying |-> retrying, panic |-> ir = "panic",
        remember |-> ir # "panic" /\ retrying /\ usesTestingT(n.ce)]
  ELSE IF n.kind = "FuncDecl" THEN
    [v |-> [v1 EXCEPT !.currentTest = n.name], retrying |-> FALSE,
     panic |-> FALSE, remember |-> FALSE]
  ELSE [v |-> v1, retrying |-> FALSE, panic |-> FALSE, remember |-> FALSE]

\* Resume for a visitor with a pointer receiver: what the child's subtree did
\* to the retry depth stays.
Resume_shared(parent, child) == [parent EXCEPT !.retryDepth = child.retryDepth]

\* The visitor ast.Walk goes on with in a parent once the subtree of a child
\* is done: Visit has a value receiver and Visit(nil) returns its own copy, so
\* the parent's visitor is untouched by whatever the child's copy became.
Resume(parent, child) == parent

\* run: the exit code it returns when the walk succeeded
RunExitCode(b) == IF DOMAIN b # {} THEN violationStatus ELSE 0

\* main with a status of its own for an error of run
MainExitStatus_distinct(code, err) == IF err THEN errorStatus + 1 ELSE code

\* main: the status handed to os.Exit
MainExitStatus(code, err) == IF err THEN errorStatus ELSE code

\* ---------------------------------------------- what the parser resolved
\* go/parser resolves an identifier to the object its name is bound to in the
\* enclosing scopes (env), and leaves Obj nil when there is none.
ResolveExpr(e, env) ==
  IF e.kind = "Ident" /\ e.name \in DOMAIN env THEN [e EXCEPT !.obj = env[e.name]] ELSE e

ResolveCall(c, env) ==
  [c EXCEPT !.x = ResolveExpr(c.x, env),
            !.args = [i \in 1..Len(c.args) |-> ResolveExpr(c.args[i], env)]]

\* The scope of a function literal's body: its parameters, all *retry.R.
LitEnv(env, lit) ==
  LET names == UNION {{lit.params[i][j] : j \in 1..Len(lit.params[i])} :
                        i \in 1..Len(lit.params)}
  IN [n \in DOMAIN env \cup names |-> IF n \in names THEN RetryR ELSE env[n]]

\* The scope after  require := <call>.
AssignEnv(env) ==
  [n \in DOMAIN env \cup {"require"} |-> IF n = "require" THEN AssignObj ELSE env[n]]

\* The children of a call expression that are nodes of the model, in the order
\* ast.Walk visits them: Fun first, then Args.
IsNodeExpr(e) == e.kind \in {"CallExpr", "FuncLit"}

ChildSlots(ce) ==
  (IF ce.fun = "SelectorExpr" /\ ce.x.kind = "CallExpr" THEN <<ce.x>> ELSE <<>>)
    \o SelectSeq(ce.args, IsNodeExpr)

IsCallSlot(e) == e.kind = "CallExpr"

NeedCalls(ce) == Len(SelectSeq(ChildSlots(ce), IsCallSlot))

NoCall == Fn(Ident(""), <<>>)

Node(kind, name, ce) == [kind |-> kind, name |-> name, ce |-> ce]

\* ------------------------------------------------------------- the state
VARIABLES
  pc,          \* "getwd", "walk", "ast", "report", "main", "exit"
  fileIdx,     \* paths handed to visitFile so far; the current path
  stack,       \* ast.Walk's recursion: one frame per node being walked
  broken,      \* path -> test -> positions
  exitCode,    \* run's first result
  runErr,      \* run's second result is a non-nil error
  exitStatus,  \* the status the process exited with (-1: still running)
  panicked,    \* the process died in a run-time panic
  calls,       \* history: the call expressions visited so far, each with
               \* where it stands (path, fn, fname, up, via), its position and
               \* the retryDepth Visit was entered with and returned
  nFuncs,      \* history: function declarations visited so far
  vocab,       \* input: the vocabulary of the source tree
  sig          \* input: the signature of its function declarations

vars ==
  <<pc, fileIdx, stack, broken, exitCode, runErr, exitStatus, panicked, calls, nFuncs,
    vocab, sig>>

Top == stack[Len(stack)]

Pop(s) == SubSeq(s, 1, Len(s) - 1)

RECURSIVE Pending(_)
\* call expressions the frames of s still have to walk
Pending(s) ==
  IF s = <<>> THEN 0
  ELSE Len(SelectSeq(s[Len(s)].slots, IsCallSlot)) + Pending(Pop(s))

\* A frame: the node's kind, the visitor Visit returned for it, the scope its
\* children are resolved in, the children still to walk (slots), and where the
\* node stands: function declaration fn named fname (for the file node, fn
\* counts the declarations walked in the file), innermost enclosing call
\* id (0: none) entered through via ("lit": its function literal, "arg": an
\* argument, "X": the selector's operand, "top": the function's own body).
Frame(kind, v, env, slots, assign, fn, fname, id, via) ==
  [kind |-> kind, v |-> v, env |-> env, slots |-> slots, assign |-> assign,
   fn |-> fn, fname |-> fname, id |-> id, via |-> via]

Init ==
  /\ pc = "getwd"
  /\ fileIdx = 0
  /\ stack = <<>>
  /\ broken = [p \in {} |-> <<>>]
  /\ exitCode = 0
  /\ runErr = FALSE
  /\ exitStatus = -1
  /\ panicked = FALSE
  /\ calls = <<>>
  /\ nFuncs = 0
  /\ vocab \in Vocabularies
  /\ sig \in Signatures

\* ------------------------------------------------------------ run, main
\* run: os.Getwd
Getwd ==
  /\ pc = "getwd"
  /\ \E ok \in BOOLEAN :
       IF ok THEN pc' = "walk" /\ UNCHANGED runErr
       ELSE pc' = "main" /\ runErr' = TRUE
  /\ UNCHANGED <<fileIdx, stack, broken, exitCode, exitStatus, panicked, calls, nFuncs, vocab, sig>>

\* filepath.Walk calls visitFile for the next path; an error visitFile returns
\* ends the walk and is what run returns.
VisitFile ==
  /\ pc = "walk"
  /\ fileIdx < MaxFiles
  /\ fileIdx' = fileIdx + 1
  /\ \E f \in FileInfos :
       IF f.err THEN pc' = "main" /\ runErr' = TRUE /\ UNCHANGED stack
       ELSE IF ~isGoFile(f) THEN UNCHANGED <<pc, runErr, stack>>
       ELSE IF ~f.parses THEN pc' = "main" /\ runErr' = TRUE /\ UNCHANGED stack
       ELSE IF importsPackage(f, retryPath) /\ importsPackage(f, testingPath) THEN
         /\ pc' = "ast"
         /\ stack' = <<Frame("File", Visit(NewVisitor(fileIdx'), Node("File", "", NoCall)).v,
                              <<>>, <<>>, FALSE, 0, "", 0, "top")>>
         /\ UNCHANGED runErr
       ELSE UNCHANGED <<pc, runErr, stack>>
  /\ UNCHANGED <<broken, exitCode, exitStatus, panicked, calls, nFuncs, vocab, sig>>

\* run: the walk returned nil; report what is in broken
Report ==
  /\ pc = "walk"
  /\ exitCode' = RunExitCode(broken)
  /\ pc' = "main"
  /\ UNCHANGED <<fileIdx, stack, broken, runErr, exitStatus, panicked, calls, nFuncs, vocab, sig>>

\* main: os.Exit
Main ==
  /\ pc = "main"
  /\ exitStatus' = MainExitStatus(exitCode, runErr)
  /\ pc' = "exit"
  /\ UNCHANGED <<fileIdx, stack, broken, exitCode, runErr, panicked, calls, nFuncs, vocab, sig>>

\* ------------------------------------------------------------- ast.Walk
\* Walk(v, decl) for the next function declaration of the file, and
\* Walk(v, decl.Body) under it.
WalkFuncDecl ==
  /\ pc = "ast"
  /\ Top.kind = "File"
  /\ nFuncs < MaxFuncs
  /\ nFuncs' = nFuncs + 1
  /\ LET name == FuncName(Top.fn + 1)
         d == Visit(Top.v, Node("FuncDecl", name, NoCall)).v
         b == Visit(d, Node("BlockStmt", "", NoCall)).v
         env == [n \in {"t"} |-> sig]
     IN stack' = <<[Top EXCEPT !.fn = @ + 1],
                   Frame("FuncDecl", d, env, <<>>, FALSE, nFuncs', name, 0, "top"),
                   Frame("BlockStmt", b, env, <<>>, FALSE, nFuncs', name, 0, "top")>>
  /\ UNCHANGED <<pc, fileIdx, broken, exitCode, runErr, exitStatus, panicked, calls, vocab, sig>>

\* Visit for a call expression shape standing under the frames pre (the last
\* of them its parent, whose visitor is v), written at position pos.
EnterCall(pre, v, shape, via, pos) ==
  LET parent == pre[Len(pre)]
      ce == ResolveCall(shape, parent.env)
      r == Visit(v, Node("CallExpr", "", ce))
      id == Len(calls) + 1
      rec == [id |-> id, path |-> fileIdx, fn |-> parent.fn, fname |-> parent.fname,
              ce |-> ce, pos |-> pos, up |-> parent.id, via |-> via,
              before |-> v.retryDepth, after |-> r.v.retryDepth]
  IN /\ calls' = Append(calls, rec)
     /\ IF r.panic THEN
          \* an index out of range in inRetry: the Go run time ends the process
          /\ pc' = "exit"
          /\ panicked' = TRUE
          /\ exitStatus' = 2
          /\ UNCHANGED <<stack, broken>>
        ELSE
          /\ stack' = pre \o
               <<Frame("CallExpr", r.v, parent.env, ChildSlots(ce), FALSE,
                       parent.fn, parent.fname, id, via)>>
          /\ broken' = IF r.remember
                         THEN rememberTest(broken, r.v.path, r.v.currentTest, pos)
                         ELSE broken
          /\ UNCHANGED <<pc, panicked, exitStatus>>
     /\ UNCHANGED <<fileIdx, exitCode, runErr, nFuncs, vocab, sig>>

\* Walk(v, stmt) for the next statement of a block, an expression statement or
\* require := <call>, and Walk(v, call) under it.
WalkStmt ==
  /\ pc = "ast"
  /\ Top.kind = "BlockStmt"
  /\ \E kind \in {"ExprStmt", "AssignStmt"} :
       \E shape \in (IF kind = "AssignStmt" THEN AssignShapes(vocab) ELSE ExprShapes(vocab)) :
         /\ Len(calls) + Pending(stack) + 1 + NeedCalls(shape) <= MaxCalls
         /\ LET s == Visit(Top.v, Node(kind, "", NoCall)).v IN
            EnterCall(stack \o <<Frame(kind, s, Top.env, <<>>, kind = "AssignStmt",
                                       Top.fn, Top.fname, Top.id, Top.via)>>,
                      s, shape, Top.via, Len(calls) + 1)

\* Walk(v, n.Fun) or Walk(v, arg) for the next child of a call expression that
\* is itself a call.
WalkCallArg ==
  /\ pc = "ast"
  /\ Top.kind = "CallExpr"
  /\ Top.slots # <<>>
  /\ Head(Top.slots).kind = "CallExpr"
  /\ \E shape \in ArgShapes :
       /\ Len(calls) + Pending(stack) + NeedCalls(shape) <= MaxCalls
       /\ EnterCall(Pop(stack) \o <<[Top EXCEPT !.slots = Tail(@)]>>, Top.v, shape,
                    Head(Top.slots).name,
                    IF Head(Top.slots).name = "X" THEN calls[Top.id].pos
                    ELSE Len(calls) + 1)

\* Walk(v, lit) for the function literal among the arguments of a call, and
\* Walk(v, lit.Body) under it.
WalkFuncLit ==
  /\ pc = "ast"
  /\ Top.kind = "CallExpr"
  /\ Top.slots # <<>>
  /\ Head(Top.slots).kind = "FuncLit"
  /\ LET lit == Head(Top.slots)
         l == Visit(Top.v, Node("FuncLit", "", NoCall)).v
         b == Visit(l, Node("BlockStmt", "", NoCall)).v
         env == LitEnv(Top.env, lit)
     IN stack' = Pop(stack) \o
          <<[Top EXCEPT !.slots = Tail(@)],
            Frame("FuncLit", l, env, <<>>, FALSE, Top.fn, Top.fname, Top.id, "lit"),
            Frame("BlockStmt", b, env, <<>>, FALSE, Top.fn, Top.fname, Top.id, "lit")>>
  /\ UNCHANGED <<pc, fileIdx, broken, exitCode, runErr, exitStatus, panicked, calls, nFuncs, vocab, sig>>

\* ast.Walk returns from the top node to its parent: the parent goes on with
\* its own visitor, and a block goes on in the scope the statement left.
Return(s) ==
  IF Len(s) = 1 THEN <<>>
  ELSE LET top == s[Len(s)]
           parent == s[Len(s) - 1]
           env == IF top.assign THEN AssignEnv(parent.env) ELSE parent.env
       IN SubSeq(s, 1, Len(s) - 2) \o
            <<[parent EXCEPT !.v = Resume(parent.v, top.v), !.env = env]>>

RECURSIVE Unwind(_)
\* ast.Walk returns up to the nearest node that can have a further child: a
\* block, the file, or a call with children left to walk.
Unwind(s) ==
  LET s1 == Return(s) IN
  IF s1 = <<>> THEN s1
  ELSE IF s1[Len(s1)].kind \in {"BlockStmt", "File"} \/ s1[Len(s1)].slots # <<>> THEN s1
  ELSE Unwind(s1)

\* The children of the top node are done: Visit(nil), and ast.Walk returns.
\* After the file node the walk of the directory goes on.
WalkUp ==
  /\ pc = "ast"
  /\ Top.slots = <<>>
  /\ stack' = Unwind(stack)
  /\ pc' = IF stack' = <<>> THEN "walk" ELSE "ast"
  /\ UNCHANGED <<fileIdx, broken, exitCode, runErr, exitStatus, panicked, calls, nFuncs, vocab, sig>>

Next ==
  \/ Getwd
  \/ VisitFile
  \/ Report
  \/ Main
  \/ WalkFuncDecl
  \/ WalkStmt
  \/ WalkCallArg
  \/ WalkFuncLit
  \/ WalkUp

Spec == Init /\ [][Next]_vars

\* ------------------------------------------------- vocabulary of the claims
\* The identifier is declared as a *testing.T parameter (the outer handle).
IsOuter(e) == e.kind = "Ident" /\ e.obj = TestingT

\* The identifier is the parameter of a retry function literal.
IsRetryHandle(e) == e.kind = "Ident" /\ e.obj = RetryR

ArgsUseOuter(ce) == \E i \in 1..Len(ce.args) : IsOuter(ce.args[i])

\* The call is a member call on the outer handle, or passes it as an argument.
UsesOuter(ce) == (ce.fun = "SelectorExpr" /\ IsOuter(ce.x)) \/ ArgsUseOuter(ce)

\* t.Fatal(...) and the like, the handle not among the arguments
IsFailureCall(ce) ==
  ce.fun = "SelectorExpr" /\ IsOuter(ce.x) /\ ce.sel \in failers /\ ~ArgsUseOuter(ce)

\* assert.X(...) / require.X(...)
IsHelperCall(ce) ==
  ce.fun = "SelectorExpr" /\ ce.x.kind = "Ident" /\ ce.x.name \in {"assert", "require"}

RECURSIVE Ancestors(_)
\* the calls whose subtree call c stands in
Ancestors(c) ==
  IF calls[c].up = 0 THEN {} ELSE {calls[c].up} \cup Ancestors(calls[c].up)

\* call c stands inside the function literal among the arguments of call a
InLit(c, a) ==
  \E n \in {c} \cup Ancestors(c) : calls[n].up = a /\ calls[n].via = "lit"

\* call a is a detected retry call
Detected(a) == inRetry(calls[a].ce) = "true"

\* call c stands inside the body of a detected retry call
InRetryBody(c) == \E a \in Ancestors(c) : Detected(a) /\ InLit(c, a)

\* the subtree of call a is still being walked (or the walk died in it)
Walking(a) == \E i \in DOMAIN stack : stack[i].id = a

\* the records of a file whose position is in ps, as <<test, index>>
RecordsAt(path, ps) ==
  IF path \notin DOMAIN broken THEN {}
  ELSE UNION {{<<t, i>> : i \in {j \in DOMAIN broken[path][t] : broken[path][t][j] \in ps}} :
               t \in DOMAIN broken[path]}

\* the positions of the calls of function declaration fn of a file
FuncPositions(path, fn) ==
  {calls[c].pos : c \in {d \in DOMAIN calls : calls[d].path = path /\ calls[d].fn = fn}}

\* ------------------------------------------------------------------ C1
LitBody(a) == {c \in DOMAIN calls : InLit(c, a)}

OneDirectFailure(a) ==
  /\ Detected(a)
  /\ ~Walking(a)
  /\ Cardinality({c \in LitBody(a) : UsesOuter(calls[c].ce)}) = 1
  /\ \A c \in LitBody(a) : UsesOuter(calls[c].ce) => IsFailureCall(calls[c].ce)

C2_NoRecordForCleanFunction ==
  \A c \in DOMAIN calls :
    LET mine == {d \in DOMAIN calls : calls[d].path = calls[c].path /\ calls[d].fn = calls[c].fn}
    IN (\A d \in mine : (\E a \in mine : InLit(d, a)) => ~UsesOuter(calls[d].ce))
         => RecordsAt(calls[c].path, FuncPositions(calls[c].path, calls[c].fn)) = {}

\* ------------------------------------------------------------------ C3
HelperCallOnOuter(c) ==
  /\ IsHelperCall(calls[c].ce)
  /\ InRetryBody(c)
  /\ Len(calls[c].ce.args) > 0
  /\ IsOuter(calls[c].ce.args[1])

HelperCallOnRetryHandle(c) ==
  /\ IsHelperCall(calls[c].ce)
  /\ InRetryBody(c)
  /\ Len(calls[c].ce.args) > 0
  /\ IsRetryHandle(calls[c].ce.args[1])
  /\ ~ArgsUseOuter(calls[c].ce)

\* C3: inside a retry body, assert.X / require.X with the outer handle as first
\* argument is recorded under the enclosing function; the same call with the
\* retry-scoped handle as first argument is not recorded.
C3_HelperArgument ==
  \A c \in DOMAIN calls :
    /\ HelperCallOnOuter(c) =>
         /\ RecordsAt(calls[c].path, {calls[c].pos}) # {}
         /\ \A r \in RecordsAt(calls[c].path, {calls[c].pos}) : r[1] = calls[c].fname
    /\ HelperCallOnRetryHandle(c) => RecordsAt(calls[c].path, {calls[c].pos}) = {}

C3_Witness ==
  \E c, d \in DOMAIN calls :
    /\ HelperCallOnOuter(c)
    /\ RecordsAt(calls[c].path, {calls[c].pos}) # {}
    /\ HelperCallOnRetryHandle(d)
    /\ calls[d].path = calls[c].path

\* ------------------------------------------------------------------ C4
\* require.New(t) with the outer handle, outside every function literal
BindsHelperToOuter(n) ==
  /\ IsHelperCall(calls[n].ce)
  /\ calls[n].ce.sel = "New"
  /\ Len(calls[n].ce.args) > 0
  /\ IsOuter(calls[n].ce.args[1])
  /\ calls[n].up = 0

\* C4: when a function binds an assertion helper to the outer handle before a
\* retry call and a helper call inside the retry body has the retry-scoped
\* handle among none of its arguments, the function has a record.
C4_OuterBoundHelperReported ==
  \A n, a, c \in DOMAIN calls :
    ( /\ BindsHelperToOuter(n)
      /\ n < a
      /\ calls[n].path = calls[a].path /\ calls[n].fn = calls[a].fn
      /\ Detected(a)
      /\ InLit(c, a)
      /\ IsHelperCall(calls[c].ce)
      /\ \A i \in 1..Len(calls[c].ce.args) : ~IsRetryHandle(calls[c].ce.args[i]) )
    => RecordsAt(calls[a].path, FuncPositions(calls[a].path, calls[a].fn)) # {}

\* ------------------------------------------------------------------ C5
\* C5: the store holds at most one record per file, function and position.
C5_OneRecordPerSite ==
  \A path \in DOMAIN broken : \A t \in DOMAIN broken[path] :
    \A i, j \in DOMAIN broken[path][t] :
      broken[path][t][i] = broken[path][t][j] => i = j

C7_ScopeOnlyInsideLiteral ==
  \A c \in DOMAIN calls :
    (UsesOuter(calls[c].ce) /\ ~InRetryBody(c)) =>
      calls[c].before = 0 /\ RecordsAt(calls[c].path, {calls[c].pos}) = {}

\* ------------------------------------------------------------------ C8
\* the retry depth the visitor of the parent of call c carries
ParentScope(c) == IF calls[c].up = 0 THEN 0 ELSE calls[calls[c].up].after

\* Visit returned for call c (it did not die in inRetry)
Evaluated(c) == ~(panicked /\ c = Len(calls))

\* C8: every call is visited with the retry depth of its parent's visitor,
\* whatever subtrees were walked before it; so a use of the outer handle inside
\* a retry body is recorded, and one outside every call is not.
C8_ScopeRestored ==
  \A c \in DOMAIN calls :
    /\ calls[c].before = ParentScope(c)
    /\ (UsesOuter(calls[c].ce) /\ InRetryBody(c) /\ Evaluated(c)) =>
         RecordsAt(calls[c].path, {calls[c].pos}) # {}
    /\ (UsesOuter(calls[c].ce) /\ calls[c].up = 0) =>
         RecordsAt(calls[c].path, {calls[c].pos}) = {}

C8_Witness ==
  \E a, b, c \in DOMAIN calls :
    /\ Detected(a) /\ Detected(b)
    /\ calls[b].up = a /\ calls[b].via = "lit"
    /\ ~Walking(b)
    /\ b < c
    /\ calls[c].up = a /\ calls[c].via = "lit"
    /\ UsesOuter(calls[c].ce)
    /\ calls[c].before = calls[a].after
    /\ RecordsAt(calls[c].path, {calls[c].pos}) # {}

\* ------------------------------------------------------------------ C9
\* C9: inside a retry body, a member call on the outer handle that is not one
\* of the failers, the handle not among its arguments, is not recorded.
C9_OnlyFailersReported ==
  \A c \in DOMAIN calls :
    ( /\ InRetryBody(c)
      /\ calls[c].ce.fun = "SelectorExpr"
      /\ IsOuter(calls[c].ce.x)
      /\ calls[c].ce.sel \notin failers
      /\ ~ArgsUseOuter(calls[c].ce) )
    => RecordsAt(calls[c].path, {calls[c].pos}) = {}

\* ----------------------------------------------------------------- C10
\* C10: the detector never raises on a call shape the parser accepted.
C10_NeverRaises == ~panicked

\* ----------------------------------------------------------------- C11
\* call a is retry.Run(t, <func literal>) or retry.RunWith(x, t, <func literal>)
\* whose literal declares a named first parameter
IsRetryLiteralCall(a) ==
  LET ce == calls[a].ce IN
    /\ ce.fun = "SelectorExpr"
    /\ ce.x.kind = "Ident" /\ ce.x.name = "retry"
    /\ ce.sel \in {"Run", "RunWith"}
    /\ Len(ce.args) = LitIndex(ce)
    /\ ce.args[LitIndex(ce)].kind = "FuncLit"
    /\ Len(ce.args[LitIndex(ce)].params) > 0
    /\ Len(ce.args[LitIndex(ce)].params[1]) > 0

\* the name of the first declared parameter of the literal of call a
FirstParamName(a) == calls[a].ce.args[LitIndex(calls[a].ce)].params[1][1]

\* C11: a retry call with a function literal opens a retry scope exactly when
\* the literal's first parameter is not named t; then every call inside the
\* literal that uses the outer handle is recorded, and when the parameter is
\* named t no scope is opened and no call inside the literal is recorded.
C11_ScopeUnlessNamedT ==
  \A a \in DOMAIN calls :
    (IsRetryLiteralCall(a) /\ calls[a].before = 0) =>
      IF FirstParamName(a) # "t"
      THEN /\ calls[a].after > 0
           /\ \A c \in LitBody(a) :
                (UsesOuter(calls[c].ce) /\ Evaluated(c)) =>
                  RecordsAt(calls[c].path, {calls[c].pos}) # {}
      ELSE /\ calls[a].after = 0
           /\ RecordsAt(calls[a].path, {calls[c].pos : c \in LitBody(a)}) = {}

====
